---- MODULE Spec2Model ----
(***************************************************************************)
(* Dockerfile.py: renders Dockerfile_<arch> files from a template for the  *)
(* records of the images table selected by --os / --arch, then runs        *)
(* 'docker build' (and optionally 'docker tag') for every element of the   *)
(* product of the two option lists, one child process at a time.           *)
(*                                                                         *)
(* Environment assumed by the model: the VERSION file and the template     *)
(* exist, the executables are found (Popen does not raise), and the        *)
(* interpreter iterates a dict in insertion order (Python >= 3.7). What a  *)
(* child prints is a sequence of lines, each one text in the encoding of   *)
(* the locale or not.                                                      *)
(***************************************************************************)
EXTENDS Integers, Sequences, FiniteSets, TLC

VARIABLES
    argv,         \* the command line as typed: what docopt is given
    raw_version,  \* content of the VERSION file, a sequence of tokens
    template,     \* Dockerfile.template: the set of pihole.* keys it prints
    fs,           \* the Dockerfile_<arch> files on disk: name -> content
    pc,           \* position of the script; "done" after its last statement,
                  \* "raised" after an exception no handler catches
    gen_i,        \* generate_dockerfiles: index of the next (os, image) item
    os_i,         \* build_dockerfiles: index into args['--os']
    arch_i,       \* build_dockerfiles: index into args['--arch']
    procs,        \* child processes not yet reaped: pid -> process
    started,      \* history: the commands given to Popen, in order
    rendered,     \* history: the (os, arch, file) renderings written this run
    reported,     \* whether "::: Error running" has been printed this run
    exit_status,  \* exit status of the script, NotExited while it runs
    run,          \* number of the current run of the script
    prev_fs       \* the files as the previous run left them; in the first
                  \* run, the files the run started with

vars == <<argv, raw_version, template, fs, pc, gen_i, os_i, arch_i, procs,
          started, rendered, reported, exit_status, run, prev_fs>>

\* what the script is given: a run never changes it
inputs == <<argv, raw_version, template>>

----------------------------------------------------------------------------
(* Bounds of the model *)

\* longest --os list typed on the command line
MaxOsArgs == 2
\* longest --arch list typed on the command line
MaxArchArgs == 1
\* capacity of the stdout pipe between a child and the script, in lines
PipeCap == 1
\* most lines a child prints: one more than the pipe holds
MaxOut == PipeCap + 1
\* how often the script is run in a row over the same directory
MaxRuns == 2

NotExited == -1

----------------------------------------------------------------------------
(* Static tables *)

base_vars ==
    [name |-> "pihole/pihole", maintainer |-> "adam@diginc.us",
     s6_version |-> "v1.22.1.0"]

os_base_vars ==
    [debian |-> [php_env_config |-> "/etc/lighttpd/conf-enabled/15-fastcgi-php.conf",
                 php_error_log |-> "/var/log/lighttpd/error.log"],
     alpine |-> [php_env_config |-> "/etc/php5/fpm.d/envs.conf",
                 php_error_log |-> "/var/log/nginx/error.log"]]

images ==
    [debian |-> <<
        [base |-> "pihole/debian-base:latest", arch |-> "amd64", s6arch |-> "amd64"],
        [base |-> "multiarch/debian-debootstrap:armel-stretch-slim",
         arch |-> "armel", s6arch |-> "arm"],
        [base |-> "multiarch/debian-debootstrap:armhf-stretch-slim",
         arch |-> "armhf", s6arch |-> "arm"],
        [base |-> "multiarch/debian-debootstrap:arm64-stretch-slim",
         arch |-> "arm64", s6arch |-> "aarch64"] >>,
     alpine |-> <<
        [base |-> "alpine:edge", arch |-> "amd64", s6arch |-> "amd64"],
        [base |-> "multiarch/alpine:armhf-edge", arch |-> "arm", s6arch |-> "arm"],
        [base |-> "multiarch/alpine:arm64-edge", arch |-> "arm64", s6arch |-> "aarch64"] >>]

\* images.items(): the keys in the order the dict literal inserts them
images_keys == <<"debian", "alpine">>

\* the (os, image) items the two nested loops of generate_dockerfiles visit
RECURSIVE images_items(_)
images_items(k) ==
    IF k > Len(images_keys) THEN << >>
    ELSE [i \in 1..Len(images[images_keys[k]]) |->
              [os |-> images_keys[k], image |-> images[images_keys[k]][i]]]
         \o images_items(k + 1)

ImageItems == images_items(1)

OsNames == {images_keys[k] : k \in 1..Len(images_keys)}
ArchNames == {ImageItems[i].image.arch : i \in 1..Len(ImageItems)}

----------------------------------------------------------------------------
(* Command line: docopt(__doc__) *)

default_os == <<"alpine", "debian">>
default_arch == <<"amd64", "armel", "armhf", "arm64">>

\* the usage text with two blanks before the description of --hub_tag: docopt
\* would read [default: None] as the string 'None'
docopt_default_string(a) ==
    [os          |-> IF a.os = << >> THEN default_os ELSE a.os,
     arch        |-> IF a.arch = << >> THEN default_arch ELSE a.arch,
     hub_tag     |-> IF a.hub_tag = << >> THEN <<"None">> ELSE a.hub_tag,
     v           |-> a.v,
     t           |-> a.t,
     no_cache    |-> a.no_cache,
     no_build    |-> a.phase = "--no-build",
     no_generate |-> a.phase = "--no-generate"]

\* A repeatable option takes the values typed, or its [default: ...] split on
\* blanks when it was not typed. The --hub_tag line of the usage text has a
\* single blank between the option and its description, so docopt reads no
\* default from it: the option is None (here << >>) unless typed, and
\* <<value>> when typed. The phases are exclusive: [--no-build | --no-generate].
docopt(a) ==
    [os          |-> IF a.os = << >> THEN default_os ELSE a.os,
     arch        |-> IF a.arch = << >> THEN default_arch ELSE a.arch,
     hub_tag     |-> a.hub_tag,
     v           |-> a.v,
     t           |-> a.t,
     no_cache    |-> a.no_cache,
     no_build    |-> a.phase = "--no-build",
     no_generate |-> a.phase = "--no-generate"]

args == docopt(argv)

\* Python truth of args['--hub_tag']: None and '' are false
Truthy(h) == h # << >> /\ h[1] # ""

SeqsUpTo(S, n) == UNION {[1..k -> S] : k \in 0..n}

HubTags == {<< >>, <<"">>, <<"latest">>}
Phases == {"", "--no-build", "--no-generate"}

ArgvSet ==
    [os : SeqsUpTo(OsNames, MaxOsArgs),
     arch : SeqsUpTo(ArchNames, MaxArchArgs),
     hub_tag : HubTags,
     v : BOOLEAN, t : BOOLEAN, no_cache : BOOLEAN,
     phase : Phases]

----------------------------------------------------------------------------
(* VERSION *)

\* str.strip() with no argument removes the characters str.isspace() accepts.
\* VERSION is modelled as ASCII text: these are the ASCII ones, blank, \t, \n,
\* \r, \f, vertical tab (0x0b) and the separators 0x1c to 0x1f.
Whitespace ==
    {" ", "\t", "\n", "\r", "\f", "", "", "", "", ""}

RECURSIVE lstrip(_)
lstrip(s) == IF s # << >> /\ Head(s) \in Whitespace THEN lstrip(Tail(s)) ELSE s

RECURSIVE rstrip(_)
rstrip(s) ==
    IF s # << >> /\ s[Len(s)] \in Whitespace THEN rstrip(SubSeq(s, 1, Len(s) - 1)) ELSE s

strip(s) == rstrip(lstrip(s))

replace(s, old, new) == [i \in 1..Len(s) |-> IF s[i] = old THEN new ELSE s[i]]

\* open(path, 'r').read(): text mode turns \r\n and a lone \r into \n
RECURSIVE read_text(_)
read_text(s) ==
    IF s = << >> THEN << >>
    ELSE IF Head(s) = "\r"
         THEN IF Len(s) >= 2 /\ s[2] = "\n"
              THEN <<"\n">> \o read_text(Tail(Tail(s)))
              ELSE <<"\n">> \o read_text(Tail(s))
         ELSE <<Head(s)>> \o read_text(Tail(s))

\* __version__
version == replace(strip(read_text(raw_version)), "release/", "release-")

RawVersions == { <<"release/", "v4.0", "\r", "\n">>, <<"\t", "dev", "\r", "2", "", "\n">> }
OldVersion == <<"v3.3">>

----------------------------------------------------------------------------
(* Rendering *)

Merge(f, g) ==
    [k \in DOMAIN f \cup DOMAIN g |-> IF k \in DOMAIN g THEN g[k] ELSE f[k]]

pick_s6arch(image) == IF image.s6arch # "" THEN image.s6arch ELSE image.arch

\* dict(list(a.items()) + list(b.items()) + ...): the later pair wins
merged_data(ver, os, image) ==
    Merge(Merge(Merge(Merge(Merge([version |-> ver], [os |-> os]), base_vars),
                      os_base_vars[os]), image),
          [s6arch |-> pick_s6arch(image)])

\* template.render(pihole=data): the text depends on the keys the template prints
render(tpl, data) == [k \in tpl |-> data[k]]

Templates == { {"version", "arch", "s6arch"}, {"os", "base", "php_env_config"} }

dockerfile_name(arch) == <<"Dockerfile_", arch>>

\* the file opened with 'a' instead of 'w': the old content is kept
write_file_append(files, name, text) ==
    [n \in DOMAIN files \cup {name} |->
        IF n = name
        THEN (IF name \in DOMAIN files THEN files[name] ELSE << >>) \o <<text>>
        ELSE files[n]]

\* open(name, 'w') and one write: the old content is dropped
write_file(files, name, text) ==
    [n \in DOMAIN files \cup {name} |-> IF n = name THEN <<text>> ELSE files[n]]

NoFiles == [n \in {} |-> << >>]

\* what an earlier release left in the directory
StaleFiles ==
    [n \in {dockerfile_name(a) : a \in ArchNames} |->
        <<render(template, merged_data(OldVersion, "debian", images["debian"][1]))>>]

----------------------------------------------------------------------------
(* Initial state *)

Init ==
    /\ argv \in ArgvSet
    /\ raw_version \in RawVersions
    /\ template \in Templates
    /\ fs \in {NoFiles, StaleFiles}
    /\ pc = "generate"
    /\ gen_i = 1
    /\ os_i = 1
    /\ arch_i = 1
    /\ procs = << >>
    /\ started = << >>
    /\ rendered = {}
    /\ reported = FALSE
    /\ exit_status = NotExited
    /\ run = 1
    /\ prev_fs = fs

----------------------------------------------------------------------------
(* generate_dockerfiles *)

\* the early return of generate_dockerfiles left out
skip_generate_never(a) == FALSE

skip_generate(a) == a.no_generate

selected(a, item) ==
    /\ \E k \in 1..Len(a.os) : a.os[k] = item.os
    /\ \E k \in 1..Len(a.arch) : a.arch[k] = item.image.arch

\* if args['--no-generate']: return
GenerateSkip ==
    /\ pc = "generate"
    /\ skip_generate(args)
    /\ pc' = "build"
    /\ UNCHANGED <<inputs, fs, gen_i, os_i, arch_i, procs, started, rendered,
                   reported, exit_status, run, prev_fs>>

\* one iteration of the nested loops: skip the item, or render and write it
GenerateStep ==
    /\ pc = "generate"
    /\ ~skip_generate(args)
    /\ gen_i <= Len(ImageItems)
    /\ LET item == ImageItems[gen_i]
           name == dockerfile_name(item.image.arch)
           text == render(template, merged_data(version, item.os, item.image))
       IN  IF selected(args, item)
           THEN /\ fs' = write_file(fs, name, text)
                /\ rendered' = rendered \cup
                       {[os |-> item.os, arch |-> item.image.arch, file |-> name]}
           ELSE UNCHANGED <<fs, rendered>>
    /\ gen_i' = gen_i + 1
    /\ UNCHANGED <<inputs, pc, os_i, arch_i, procs, started, reported,
                   exit_status, run, prev_fs>>

\* the loops are exhausted: generate_dockerfiles returns
GenerateReturn ==
    /\ pc = "generate"
    /\ ~skip_generate(args)
    /\ gen_i > Len(ImageItems)
    /\ pc' = "build"
    /\ UNCHANGED <<inputs, fs, gen_i, os_i, arch_i, procs, started, rendered,
                   reported, exit_status, run, prev_fs>>

----------------------------------------------------------------------------
(* build_dockerfiles, build, run_and_stream_command_output *)

\* the early return of build_dockerfiles left out
skip_build_never(a) == FALSE

skip_build(a) == a.no_build

\* '{}:{}_{}_{}'.format(docker_repo, __version__, os, arch)
repo_tag(docker_repo, os, arch) == <<docker_repo, version, os, arch>>

build_command(os, arch) ==
    [prog |-> "docker build", time |-> args.t, no_cache |-> args.no_cache,
     cache |-> <<"pihole", repo_tag("pihole", os, arch)>>,
     dockerfile |-> dockerfile_name(arch),
     create_tag |-> repo_tag("pihole", os, arch)]

hub_tag_command(os, arch) ==
    [prog |-> "docker tag", time |-> args.t,
     create_tag |-> repo_tag("pihole", os, arch), hub_tag |-> args.hub_tag[1]]

\* the process run_and_stream_command_output waits for: the last one started
cur == Len(started)

\* subprocess.Popen(..., stdout=PIPE, stderr=STDOUT) beside the processes ps:
\* the child starts with an empty pipe and some amount of output still to
\* print. The pipe holds the lines written and not yet read: TRUE for a line
\* the text layer of the script can decode, FALSE for one it cannot.
Popen(ps, kind, os, arch, command) ==
    /\ started' = Append(started,
                         [kind |-> kind, os |-> os, arch |-> arch, command |-> command])
    /\ \E n \in 0..MaxOut :
          procs' = [p \in DOMAIN ps \cup {cur + 1} |->
                       IF p = cur + 1
                       THEN [state |-> "running", remaining |-> n, pipe |-> << >>,
                             stdout_open |-> TRUE, returncode |-> NotExited]
                       ELSE ps[p]]
    /\ pc' = IF args.v THEN "poll" ELSE "wait"

\* the wait() left out: the script goes on while the child runs
wait_returns_at_once(p) == TRUE

\* build_result.wait() returns once the child has exited
wait_returns(p) == p.state = "exited"

\* the process table once wait() has returned for p: an exited child is reaped
reaped(ps, p) ==
    [q \in {r \in DOMAIN ps : r # p \/ ps[r].state # "exited"} |-> ps[q]]

\* if build_result.returncode != 0: print("::: Error running"), nothing else
report(p) == reported' = (reported \/ p.returncode # 0)

\* the next (os, arch) of the loops of build_dockerfiles
NextPair ==
    /\ pc' = "build"
    /\ IF arch_i < Len(args.arch)
       THEN /\ arch_i' = arch_i + 1
            /\ os_i' = os_i
       ELSE /\ arch_i' = 1
            /\ os_i' = os_i + 1

\* if args['--no-build']: return; the script ends
BuildSkip ==
    /\ pc = "build"
    /\ skip_build(args)
    /\ pc' = "done"
    /\ exit_status' = 0
    /\ UNCHANGED <<inputs, fs, gen_i, os_i, arch_i, procs, started, rendered,
                   reported, run, prev_fs>>

\* build(): up to the Popen of the build command
BuildStart ==
    /\ pc = "build"
    /\ ~skip_build(args)
    /\ os_i <= Len(args.os)
    /\ Popen(procs, "build", args.os[os_i], args.arch[arch_i],
             build_command(args.os[os_i], args.arch[arch_i]))
    /\ UNCHANGED <<inputs, fs, gen_i, os_i, arch_i, rendered, reported,
                   exit_status, run, prev_fs>>

\* while build_result.poll() is None
Poll ==
    /\ pc = "poll"
    /\ pc' = IF procs[cur].state = "exited" THEN "wait" ELSE "read"
    /\ UNCHANGED <<inputs, fs, gen_i, os_i, arch_i, procs, started, rendered,
                   reported, exit_status, run, prev_fs>>

\* for line in build_result.stdout: print(line): blocks while the pipe is empty
\* and the child holds it open. The pipe is read as text (universal_newlines):
\* a line that does not decode raises UnicodeDecodeError, which nothing
\* catches, so that the script ends there with status 1 and leaves the child.
ReadLine ==
    /\ pc = "read"
    /\ procs[cur].pipe # << >>
    /\ procs' = [procs EXCEPT ![cur].pipe = Tail(@)]
    /\ IF Head(procs[cur].pipe)
       THEN UNCHANGED <<pc, exit_status>>
       ELSE /\ pc' = "raised"
            /\ exit_status' = 1
    /\ UNCHANGED <<inputs, fs, gen_i, os_i, arch_i, started, rendered,
                   reported, run, prev_fs>>

\* end of file on the pipe, empty and closed by the child: the for loop ends,
\* whether the child has exited or not
ReadEof ==
    /\ pc = "read"
    /\ procs[cur].pipe = << >>
    /\ ~procs[cur].stdout_open
    /\ pc' = "poll"
    /\ UNCHANGED <<inputs, fs, gen_i, os_i, arch_i, procs, started, rendered,
                   reported, exit_status, run, prev_fs>>

\* wait() returned for the build command and a hub tag is set: the return code
\* is only printed, then the tag command is started
WaitThenTag ==
    /\ pc = "wait"
    /\ wait_returns(procs[cur])
    /\ started[cur].kind = "build"
    /\ Truthy(args.hub_tag)
    /\ report(procs[cur])
    /\ Popen(reaped(procs, cur), "tag", started[cur].os, started[cur].arch,
             hub_tag_command(started[cur].os, started[cur].arch))
    /\ UNCHANGED <<inputs, fs, gen_i, os_i, arch_i, rendered, exit_status, run,
                   prev_fs>>

\* wait() returned for the last command of this pair: the return code is only
\* printed, build() returns
WaitThenNext ==
    /\ pc = "wait"
    /\ wait_returns(procs[cur])
    /\ started[cur].kind = "tag" \/ ~Truthy(args.hub_tag)
    /\ report(procs[cur])
    /\ procs' = reaped(procs, cur)
    /\ NextPair
    /\ UNCHANGED <<inputs, fs, gen_i, started, rendered, exit_status, run, prev_fs>>

\* the loops of build_dockerfiles are exhausted: the script ends
BuildReturn ==
    /\ pc = "build"
    /\ ~skip_build(args)
    /\ os_i > Len(args.os)
    /\ pc' = "done"
    /\ exit_status' = 0
    /\ UNCHANGED <<inputs, fs, gen_i, os_i, arch_i, procs, started, rendered,
                   reported, run, prev_fs>>

----------------------------------------------------------------------------
(* The child process: docker *)

\* the child prints a line, decodable or not: possible while the pipe has room
ChildWrite ==
    \E p \in DOMAIN procs, decodable \in BOOLEAN :
        /\ procs[p].state = "running"
        /\ procs[p].remaining > 0
        /\ Len(procs[p].pipe) < PipeCap
        /\ procs' = [procs EXCEPT ![p].remaining = @ - 1,
                                  ![p].pipe = Append(@, decodable)]
        /\ UNCHANGED <<inputs, fs, pc, gen_i, os_i, arch_i, started, rendered,
                       reported, exit_status, run, prev_fs>>

\* the child has printed everything and closes its output before it exits
ChildClose ==
    \E p \in DOMAIN procs :
        /\ procs[p].state = "running"
        /\ procs[p].remaining = 0
        /\ procs[p].stdout_open
        /\ procs' = [procs EXCEPT ![p].stdout_open = FALSE]
        /\ UNCHANGED <<inputs, fs, pc, gen_i, os_i, arch_i, started, rendered,
                       reported, exit_status, run, prev_fs>>

\* the child has printed everything and exits with some status: its end of the
\* pipe is closed if it was not yet
ChildExit ==
    \E p \in DOMAIN procs, rc \in {0, 1} :
        /\ procs[p].state = "running"
        /\ procs[p].remaining = 0
        /\ procs' = [procs EXCEPT ![p].state = "exited", ![p].stdout_open = FALSE,
                                  ![p].returncode = rc]
        /\ UNCHANGED <<inputs, fs, pc, gen_i, os_i, arch_i, started, rendered,
                       reported, exit_status, run, prev_fs>>

----------------------------------------------------------------------------
(* The script run again *)

\* The script is invoked once more with the same VERSION, the same template
\* and the same --os and --arch, whatever the other options, over the
\* directory as the last run left it, over a clean one or over one that holds
\* the files of an earlier release.
Rerun ==
    /\ pc = "done"
    /\ run < MaxRuns
    /\ run' = run + 1
    /\ prev_fs' = fs
    /\ fs' \in {fs, NoFiles, StaleFiles}
    /\ \E h \in HubTags, v \in BOOLEAN, t \in BOOLEAN, nc \in BOOLEAN :
          argv' = [argv EXCEPT !.hub_tag = h, !.v = v, !.t = t, !.no_cache = nc]
    /\ pc' = "generate"
    /\ gen_i' = 1
    /\ os_i' = 1
    /\ arch_i' = 1
    /\ procs' = << >>
    /\ started' = << >>
    /\ rendered' = {}
    /\ reported' = FALSE
    /\ exit_status' = NotExited
    /\ UNCHANGED <<raw_version, template>>

----------------------------------------------------------------------------
(* Specifications *)

\* the steps of the script
ScriptNext ==
    \/ GenerateSkip
    \/ GenerateStep
    \/ GenerateReturn
    \/ BuildSkip
    \/ BuildStart
    \/ Poll
    \/ ReadLine
    \/ ReadEof
    \/ WaitThenTag
    \/ WaitThenNext
    \/ BuildReturn

\* the steps of the child
ChildNext ==
    \/ ChildWrite
    \/ ChildClose
    \/ ChildExit

\* one run of the script
Next == ScriptNext \/ ChildNext

Spec == Init /\ [][Next]_vars

\* the script and its child are each scheduled: the script polling in a loop
\* does not keep the child from exiting
FairSpec == Spec /\ WF_vars(ScriptNext) /\ WF_vars(ChildNext)

\* generation alone (--no-build), run MaxRuns times
GenInit == Init /\ argv.phase = "--no-build"

GenNext ==
    \/ GenerateStep
    \/ GenerateReturn
    \/ BuildSkip
    \/ Rerun

GenSpec == GenInit /\ [][GenNext]_vars

----------------------------------------------------------------------------
(* Properties *)

GenerationOver == pc # "generate" \/ gen_i > Len(ImageItems)

\* the records of the images table the filters select
SelectedItems == {i \in 1..Len(ImageItems) : selected(args, ImageItems[i])}

WrittenFiles == {r.file : r \in rendered}

\* C1: with generation not skipped, there is one distinct generated file for
\* each record of the images table whose OS is in --os and whose arch is in
\* --arch, and no other file is written: as many distinct files as such records.
C1_OneFilePerSelectedRecord ==
    (~args.no_generate /\ GenerationOver) =>
        /\ \A i \in SelectedItems :
              \E r \in rendered : /\ r.os = ImageItems[i].os
                                  /\ r.arch = ImageItems[i].image.arch
                                  /\ r.file \in DOMAIN fs
        /\ \A r \in rendered :
              \E i \in SelectedItems : /\ r.os = ImageItems[i].os
                                       /\ r.arch = ImageItems[i].image.arch
        /\ Cardinality(WrittenFiles) = Cardinality(SelectedItems)

\* C2: with --no-build no external command is ever started, whatever the
\* other flags are.
C2_NoBuildStartsNothing ==
    args.no_build => (started = << >> /\ procs = << >>)

C2_Witness ==
    /\ args.no_build
    /\ pc = "done"
    /\ rendered # {}
    /\ args.hub_tag = <<"latest">>

\* C3: with --no-generate the script writes no file: in every state of the run
\* the Dockerfile_<arch> files are those that existed before it, with the same
\* content, and there is no new one.
C3_NoGenerateWritesNothing ==
    args.no_generate => (fs = prev_fs /\ rendered = {})

C3_Witness ==
    /\ args.no_generate
    /\ pc = "done"
    /\ fs # NoFiles
    /\ started # << >>

BuiltPairs ==
    {<<started[i].os, started[i].arch>> :
        i \in {j \in 1..Len(started) : started[j].kind = "build"}}

RenderedPairs == {<<r.os, r.arch>> : r \in rendered}

\* C4: with neither phase skipped, at the end of the run the (OS, arch) pairs
\* the build command was invoked for are the pairs a Dockerfile was rendered
\* for, and each of them was built exactly once.
C4_BuiltPairsAreRenderedPairs ==
    (pc = "done" /\ ~args.no_build /\ ~args.no_generate) =>
        /\ BuiltPairs = RenderedPairs
        /\ \A q \in RenderedPairs :
              Cardinality({i \in 1..Len(started) :
                              /\ started[i].kind = "build"
                              /\ <<started[i].os, started[i].arch>> = q}) = 1

\* C5: 'docker tag' is started only in a run that was given --hub_tag, and
\* then only for the pair whose build command was the last command started,
\* once that build has exited and before any other build starts.
C5_TagOnlyWithHubTag ==
    \A i \in 1..Len(started) :
        started[i].kind = "tag" =>
            /\ argv.hub_tag # << >>
            /\ started[i].command.hub_tag = argv.hub_tag[1]
            /\ i > 1
            /\ started[i - 1].kind = "build"
            /\ started[i - 1].os = started[i].os
            /\ started[i - 1].arch = started[i].arch
            /\ (i - 1) \notin DOMAIN procs

C5_Witness ==
    /\ Len(started) >= 4
    /\ started[2].kind = "tag"
    /\ started[3].kind = "build"
    /\ started[4].kind = "tag"
    /\ 4 \in DOMAIN procs

Running == {p \in DOMAIN procs : procs[p].state = "running"}

\* C6: at most one external process is running, and when a command has been
\* started every command started before it has exited, with -v and without.
C6_OneCommandAtATime ==
    /\ Cardinality(Running) <= 1
    /\ \A p \in DOMAIN procs : p = cur

C6_Witness ==
    /\ Len(started) >= 2
    /\ ~args.v
    /\ Running = {cur}

\* the (OS, arch) pairs the loops of build_dockerfiles run over
LoopPairs ==
    {<<args.os[i], args.arch[j]>> : i \in 1..Len(args.os), j \in 1..Len(args.arch)}

\* the positions in the history at which the command kind of pair q was started
StartsOf(kind, q) ==
    {i \in 1..Len(started) :
        started[i].kind = kind /\ <<started[i].os, started[i].arch>> = q}

\* the script has ended, by its last statement or by an exception
Ended == pc \in {"done", "raised"}

\* C7: whatever the exit statuses of the commands, no command of a pair is
\* started twice, the script never ends with a status other than 0, and when it
\* has ended the build of every pair of its loops, and its tag command when a
\* hub tag is set, has been started exactly once.
C7_FailureOnlyReported ==
    /\ \A q \in LoopPairs :
          /\ Cardinality(StartsOf("build", q)) <= 1
          /\ Cardinality(StartsOf("tag", q)) <= 1
    /\ exit_status \in {NotExited, 0}
    /\ (Ended /\ ~args.no_build) =>
          \A q \in LoopPairs :
              /\ Cardinality(StartsOf("build", q)) = 1
              /\ Truthy(args.hub_tag) => Cardinality(StartsOf("tag", q)) = 1

    /\ DOMAIN fs # DOMAIN prev_fs

\* C9: with neither phase skipped, the file every started build command is
\* given exists and holds the rendering of the images record of that same
\* (os, arch).
C9_BuildReadsOwnRendering ==
    (~args.no_build /\ ~args.no_generate) =>
        \A i \in 1..Len(started) :
            started[i].kind = "build" =>
                /\ started[i].command.dockerfile \in DOMAIN fs
                /\ \E k \in 1..Len(ImageItems) :
                      /\ ImageItems[k].os = started[i].os
                      /\ ImageItems[k].image.arch = started[i].arch
                      /\ fs[started[i].command.dockerfile] =
                            <<render(template,
                                     merged_data(version, started[i].os,
                                                 ImageItems[k].image))>>


\* C10: the run always terminates: before its end the script or its child can
\* always take a step, so that the script is never blocked for good, with -v
\* and without.
C10_NeverBlocked == Ended \/ ENABLED Next

====
